---- MODULE Spec2Model ----
(***************************************************************************)
(* Model of src/app.py, the "SOTA USA County Explorer" Streamlit script.   *)
(*                                                                         *)
(* Text is modelled as a sequence of character codes (ASCII), so that      *)
(* sorting, joining, splitting and regular-expression search are computed  *)
(* on the characters the program handles.  A data-frame cell is either     *)
(* missing (NaN, the empty tuple) or present (a one-element tuple holding  *)
(* the value).  Coordinates are integers on a small grid.                  *)
(***************************************************************************)
EXTENDS Integers, Sequences, FiniteSets, TLC

VARIABLES
    csv,              \* rows of w-summits.csv as read_csv returns them
    geojson,          \* data["features"] of counties.json
    pc,               \* position of the script run
    summits_df,       \* st.cache_data entry of load_summits (NaN = not computed)
    counties_gdf,     \* st.cache_resource entry of load_counties
    join_cache,       \* st.cache_resource entry of spatial_join: a frame id
    cache_hit,        \* TRUE when this run got the join result from the cache
    frames,           \* the DataFrame objects alive in this run, by id
    summits,          \* id of the frame the name summits is bound to (0 = unbound)
    filtered,         \* id of the frame the name filtered is bound to (0 = unbound)
    search_text,      \* st.text_input value
    all_counties,     \* the selector vocabulary
    selected_county,  \* st.selectbox value
    display_df,       \* the table shown in the left column
    selected_code,    \* NaN (None) or the highlighted summit code
    view              \* what the right column shows

vars == <<csv, geojson, pc, summits_df, counties_gdf, join_cache, cache_hit,
          frames, summits, filtered, search_text, all_counties,
          selected_county, display_df, selected_code, view>>

-----------------------------------------------------------------------------
(* Bounds of the model *)

MaxRows == 2
MaxFeatures == 3

-----------------------------------------------------------------------------
(* Cells and text *)

NaN == <<>>
Some(x) == <<x>>
IsNa(c) == c = <<>>
Val(c) == c[1]

\* Python's str < str: lexicographic order on code points.
RECURSIVE StrLess(_, _)
StrLess(a, b) ==
    IF b = <<>> THEN FALSE
    ELSE IF a = <<>> THEN TRUE
    ELSE IF Head(a) # Head(b) THEN Head(a) < Head(b)
    ELSE StrLess(Tail(a), Tail(b))

\* The least text of a non-empty set of texts.
MinStr(S) == CHOOSE m \in S : \A o \in S : o = m \/ StrLess(m, o)

\* sorted(S) for a set S of texts.
RECURSIVE SortedSet(_)
SortedSet(S) ==
    IF S = {} THEN <<>>
    ELSE LET m == MinStr(S) IN <<m>> \o SortedSet(S \ {m})

\* sep.join(parts)
RECURSIVE StrJoin(_, _)
StrJoin(sep, parts) ==
    IF parts = <<>> THEN <<>>
    ELSE IF Len(parts) = 1 THEN parts[1]
    ELSE parts[1] \o sep \o StrJoin(sep, Tail(parts))

\* Index of the first occurrence of sep in s at or after i; 0 when none.
RECURSIVE FindFrom(_, _, _)
FindFrom(s, sep, i) ==
    IF i + Len(sep) - 1 > Len(s) THEN 0
    ELSE IF SubSeq(s, i, i + Len(sep) - 1) = sep THEN i
    ELSE FindFrom(s, sep, i + 1)

\* s.split(sep) for a non-empty sep.
RECURSIVE StrSplit(_, _)
StrSplit(s, sep) ==
    LET i == FindFrom(s, sep, 1) IN
    IF i = 0 THEN <<s>>
    ELSE <<SubSeq(s, 1, i - 1)>> \o StrSplit(SubSeq(s, i + Len(sep), Len(s)), sep)

IsSpace(c) == c \in {32, 9, 10, 13}

\* s.strip()
RECURSIVE LStrip(_)
LStrip(s) == IF s # <<>> /\ IsSpace(Head(s)) THEN LStrip(Tail(s)) ELSE s
RECURSIVE RStrip(_)
RStrip(s) ==
    IF s # <<>> /\ IsSpace(s[Len(s)]) THEN RStrip(SubSeq(s, 1, Len(s) - 1)) ELSE s
StrStrip(s) == RStrip(LStrip(s))

Range(s) == {s[i] : i \in 1..Len(s)}


-----------------------------------------------------------------------------
(* Regular-expression search, as Series.str.contains uses it *)

\* str.lower() on one ASCII character.
Lower(c) == IF c >= 65 /\ c <= 90 THEN c + 32 ELSE c

\* One pattern character against one subject character: "." (46) matches any
\* character but a newline, every other character of the alphabet used here
\* is a literal; ci is re.IGNORECASE.
CharMatches(p, c, ci) ==
    IF p = 46 THEN c # 10
    ELSE IF ci THEN Lower(p) = Lower(c)
    ELSE p = c

\* re.search(pat, s) is not None, for patterns of literals and ".".
RegexSearch(pat, s, ci) ==
    \E i \in 1..(Len(s) - Len(pat) + 1) :
        \A k \in 1..Len(pat) : CharMatches(pat[k], s[i + k - 1], ci)

\* Series.str.contains(pat, case=...) on one cell: NaN stays NaN.
StrContains(cell, pat, case) ==
    IF IsNa(cell) THEN "NaN"
    ELSE IF RegexSearch(pat, Val(cell), ~case) THEN "True" ELSE "False"

\* left | right on one element of two masks: pandas fills a NaN of the right
\* operand with False before the operation, and a NaN of the left operand
\* makes the element False.
MaskOr(l, r) ==
    IF l = "NaN" THEN "False"
    ELSE IF l = "True" \/ r = "True" THEN "True" ELSE "False"

-----------------------------------------------------------------------------
(* STATE FIPS -> ABBREVIATION MAP *)

STATE_FIPS ==
    { <<<<48,49>>, <<65,76>>>>, <<<<48,50>>, <<65,75>>>>, <<<<48,52>>, <<65,90>>>>,
      <<<<48,53>>, <<65,82>>>>, <<<<48,54>>, <<67,65>>>>, <<<<48,56>>, <<67,79>>>>,
      <<<<48,57>>, <<67,84>>>>, <<<<49,48>>, <<68,69>>>>, <<<<49,49>>, <<68,67>>>>,
      <<<<49,50>>, <<70,76>>>>, <<<<49,51>>, <<71,65>>>>, <<<<49,53>>, <<72,73>>>>,
      <<<<49,54>>, <<73,68>>>>, <<<<49,55>>, <<73,76>>>>, <<<<49,56>>, <<73,78>>>>,
      <<<<49,57>>, <<73,65>>>>, <<<<50,48>>, <<75,83>>>>, <<<<50,49>>, <<75,89>>>>,
      <<<<50,50>>, <<76,65>>>>, <<<<50,51>>, <<77,69>>>>, <<<<50,52>>, <<77,68>>>>,
      <<<<50,53>>, <<77,65>>>>, <<<<50,54>>, <<77,73>>>>, <<<<50,55>>, <<77,78>>>>,
      <<<<50,56>>, <<77,83>>>>, <<<<50,57>>, <<77,79>>>>, <<<<51,48>>, <<77,84>>>>,
      <<<<51,49>>, <<78,69>>>>, <<<<51,50>>, <<78,86>>>>, <<<<51,51>>, <<78,72>>>>,
      <<<<51,52>>, <<78,74>>>>, <<<<51,53>>, <<78,77>>>>, <<<<51,54>>, <<78,89>>>>,
      <<<<51,55>>, <<78,67>>>>, <<<<51,56>>, <<78,68>>>>, <<<<51,57>>, <<79,72>>>>,
      <<<<52,48>>, <<79,75>>>>, <<<<52,49>>, <<79,82>>>>, <<<<52,50>>, <<80,65>>>>,
      <<<<52,52>>, <<82,73>>>>, <<<<52,53>>, <<83,67>>>>, <<<<52,54>>, <<83,68>>>>,
      <<<<52,55>>, <<84,78>>>>, <<<<52,56>>, <<84,88>>>>, <<<<52,57>>, <<85,84>>>>,
      <<<<53,48>>, <<86,84>>>>, <<<<53,49>>, <<86,65>>>>, <<<<53,51>>, <<87,65>>>>,
      <<<<53,52>>, <<87,86>>>>, <<<<53,53>>, <<87,73>>>>, <<<<53,54>>, <<87,89>>>> }

\* MapStateFips with the region code kept where the table has no entry, as
\* .map(lambda c: STATE_FIPS.get(c, c)) would.
MapStateFipsKeepCode(cell) ==
    IF IsNa(cell) THEN NaN
    ELSE IF \E e \in STATE_FIPS : e[1] = Val(cell)
         THEN Some((CHOOSE e \in STATE_FIPS : e[1] = Val(cell))[2])
         ELSE cell

\* Series.map(STATE_FIPS) on one cell: a key that is missing or not in the
\* table gives NaN.
MapStateFips(cell) ==
    IF IsNa(cell) \/ ~(\E e \in STATE_FIPS : e[1] = Val(cell)) THEN NaN
    ELSE Some((CHOOSE e \in STATE_FIPS : e[1] = Val(cell))[2])

\* " County, "
CountySuffix == <<32,67,111,117,110,116,121,44,32>>

\* ", "
LabelSeparator == <<44,32>>

\* joined["NAME"] + " County, " + joined["StateAbbr"] on one row: NaN if
\* either operand is NaN.
CountyFullOf(name, abbr) ==
    IF IsNa(name) \/ IsNa(abbr) THEN NaN
    ELSE Some(Val(name) \o CountySuffix \o Val(abbr))

-----------------------------------------------------------------------------
(* The two source files *)

SummitRow(code, name, region, assoc, lat, lon, points) ==
    [SummitCode |-> code, SummitName |-> name, RegionName |-> region,
     AssociationName |-> assoc, Latitude |-> lat, Longitude |-> lon,
     Points |-> points]

\* Rows w-summits.csv may hold, as read_csv returns them: an empty cell is
\* NaN, the coordinate cells are still text.
\*   1  A1  "Ab"  lat "1"  lon "1"   8      inside the first county
\*   2  A1  NaN   lat "1"  lon "-1"  NaN    outside every county
\*   3  B2  "Ba"  lat "1"  lon "2"   1      on the edge two counties share
\*   4  C3  "Cc"  lat ""   lon "1"   10     empty latitude
\*   5  B2  "Zz"  lat "1"  lon "1x"  8      non-numeric longitude
\*   6  NaN "Zz"  lat "1"  lon "1"   10     no identifier
CsvRows ==
    << SummitRow(Some(<<65,49>>), Some(<<65,98>>), Some(<<82>>), Some(<<87>>),
                 Some(<<49>>), Some(<<49>>), Some(8)),
       SummitRow(Some(<<65,49>>), NaN, NaN, Some(<<87>>),
                 Some(<<49>>), Some(<<45,49>>), NaN),
       SummitRow(Some(<<66,50>>), Some(<<66,97>>), Some(<<83>>), Some(<<87>>),
                 Some(<<49>>), Some(<<50>>), Some(1)),
       SummitRow(Some(<<67,51>>), Some(<<67,99>>), Some(<<82>>), Some(<<87>>),
                 NaN, Some(<<49>>), Some(10)),
       SummitRow(Some(<<66,50>>), Some(<<90,122>>), Some(<<83>>), NaN,
                 Some(<<49>>), Some(<<49,120>>), Some(8)),
       SummitRow(NaN, Some(<<90,122>>), Some(<<82>>), Some(<<87>>),
                 Some(<<49>>), Some(<<49>>), Some(10)) >>

Feature(name, state, xmin, ymin, xmax, ymax) ==
    [NAME |-> name, State |-> state,
     geometry |-> [xmin |-> xmin, ymin |-> ymin, xmax |-> xmax, ymax |-> ymax]]

\* Features counties.json may hold; a geometry is an axis-parallel rectangle.
\*   1  King   "53"  [0,2] x [0,2]
\*   2  Adams  "53"  [2,4] x [0,2]   shares the edge x = 2 with King
\*   3  King   "53"  [0,2] x [0,2]   the King feature a second time
\*   4  Yuma   "99"  [0,4] x [0,2]   region code not in STATE_FIPS
\*   5  null   "04"  [0,2] x [0,2]   no NAME
GeoFeatures ==
    << Feature(Some(<<75,105,110,103>>), Some(<<53,51>>), 0, 0, 2, 2),
       Feature(Some(<<65,100,97,109,115>>), Some(<<53,51>>), 2, 0, 4, 2),
       Feature(Some(<<75,105,110,103>>), Some(<<53,51>>), 0, 0, 2, 2),
       Feature(Some(<<89,117,109,97>>), Some(<<57,57>>), 0, 0, 4, 2),
       Feature(NaN, Some(<<48,52>>), 0, 0, 2, 2) >>

\* The files of 1..n rows, each one of CsvRows, in any order.
CsvFiles(n) ==
    UNION { [1..k -> Range(CsvRows)] : k \in 1..n }

\* The feature collections of 1..n features of GeoFeatures, in the order of
\* GeoFeatures.
FeatureCollections(n) ==
    LET picks == { p \in UNION { [1..k -> 1..Len(GeoFeatures)] : k \in 1..n } :
                      \A i \in 1..(Len(p) - 1) : p[i] < p[i + 1] }
    IN { [i \in 1..Len(p) |-> GeoFeatures[p[i]]] : p \in picks }

-----------------------------------------------------------------------------
(* load_summits *)

IsDigit(c) == c >= 48 /\ c <= 57

\* The value of a text of digits.
RECURSIVE DigitsValue(_)
DigitsValue(t) ==
    IF t = <<>> THEN 0
    ELSE 10 * DigitsValue(SubSeq(t, 1, Len(t) - 1)) + (t[Len(t)] - 48)

\* to_numeric with the cells that are no number turned into 0, as a
\* .fillna(0) after the conversion would.
to_numeric_fill_zero(cell) ==
    IF IsNa(cell) THEN Some(0)
    ELSE LET t == Val(cell)
             d == IF t # <<>> /\ Head(t) = 45 THEN Tail(t) ELSE t
         IN IF d # <<>> /\ \A i \in 1..Len(d) : IsDigit(d[i])
            THEN Some(IF d = t THEN DigitsValue(d) ELSE 0 - DigitsValue(d))
            ELSE Some(0)

\* pd.to_numeric(..., errors="coerce") on one cell: a missing cell and a text
\* that is no number give NaN.  The texts of the model are signed integers
\* or hold a character no number holds.
to_numeric(cell) ==
    IF IsNa(cell) THEN NaN
    ELSE LET t == Val(cell)
             d == IF t # <<>> /\ Head(t) = 45 THEN Tail(t) ELSE t
         IN IF d # <<>> /\ \A i \in 1..Len(d) : IsDigit(d[i])
            THEN Some(IF d = t THEN DigitsValue(d) ELSE 0 - DigitsValue(d))
            ELSE NaN

\* df.dropna(subset=["Longitude", "Latitude"])
DropNaCoordinates(df) ==
    SelectSeq(df, LAMBDA r : ~IsNa(r.Longitude) /\ ~IsNa(r.Latitude))

load_summits(file) ==
    LET df == [i \in 1..Len(file) |->
                  [file[i] EXCEPT !.Longitude = to_numeric(@),
                                  !.Latitude = to_numeric(@)]]
    IN DropNaCoordinates(df)

load_counties(features) == features


-----------------------------------------------------------------------------
(* spatial_join *)

\* Intersects with the boundary left out, as predicate="within" would.
Within(lon, lat, g) ==
    /\ g.xmin < lon /\ lon < g.xmax
    /\ g.ymin < lat /\ lat < g.ymax

\* predicate="intersects" for Point(lon, lat) and a polygon: the point is in
\* the polygon's interior or on its boundary.
Intersects(lon, lat, g) ==
    /\ g.xmin <= lon /\ lon <= g.xmax
    /\ g.ymin <= lat /\ lat <= g.ymax

\* One row of joined: the columns of the point, NAME and STATE of the feature
\* (NaN when the point has no feature), and the two columns lines 73-74 add.
JoinedRow(r, name, state) ==
    [SummitCode |-> r.SummitCode, SummitName |-> r.SummitName,
     RegionName |-> r.RegionName, AssociationName |-> r.AssociationName,
     Latitude |-> r.Latitude, Longitude |-> r.Longitude, Points |-> r.Points,
     NAME |-> name, State |-> state,
     StateAbbr |-> MapStateFips(state),
     CountyFull |-> CountyFullOf(name, MapStateFips(state))]

\* LeftJoinRows with the points that have no feature left out, as how="inner"
\* would.
InnerJoinRows(r, gdf) ==
    LET m == SelectSeq(gdf, LAMBDA f :
                 Intersects(Val(r.Longitude), Val(r.Latitude), f.geometry))
    IN [k \in 1..Len(m) |-> JoinedRow(r, m[k].NAME, m[k].State)]

\* The rows gpd.sjoin(how="left") gives for one point: one per feature the
\* point intersects, or one with no feature.
LeftJoinRows(r, gdf) ==
    LET m == SelectSeq(gdf, LAMBDA f :
                 Intersects(Val(r.Longitude), Val(r.Latitude), f.geometry))
    IN IF m = <<>> THEN << JoinedRow(r, NaN, NaN) >>
       ELSE [k \in 1..Len(m) |-> JoinedRow(r, m[k].NAME, m[k].State)]

\* joined, lines 65-74: the rows of every point, in the order of the points.
RECURSIVE SJoin(_, _)
SJoin(df, gdf) ==
    IF df = <<>> THEN <<>>
    ELSE LeftJoinRows(Head(df), gdf) \o SJoin(Tail(df), gdf)

\* groupby("SummitCode"): the keys in ascending order; rows whose key is NaN
\* belong to no group.
GroupKeys(joined) ==
    SortedSet({ Val(joined[i].SummitCode) :
                  i \in { j \in 1..Len(joined) : ~IsNa(joined[j].SummitCode) } })

\* The aggregation "first": the first value of the group that is not NaN.
AggFirst(cells) ==
    LET present == SelectSeq(cells, LAMBDA c : ~IsNa(c))
    IN IF present = <<>> THEN NaN ELSE present[1]

\* The values of cells that are not NaN, each once, in the order met.
RECURSIVE UniqueInOrder(_, _)
UniqueInOrder(cells, seen) ==
    IF cells = <<>> THEN <<>>
    ELSE IF IsNa(Head(cells)) \/ Val(Head(cells)) \in seen
         THEN UniqueInOrder(Tail(cells), seen)
         ELSE <<Val(Head(cells))>> \o
              UniqueInOrder(Tail(cells), seen \cup {Val(Head(cells))})

\* AggCountyFull without the sort, as ", ".join(x.dropna().unique()) would.
AggCountyFullUnsorted(cells) ==
    Some(StrJoin(LabelSeparator, UniqueInOrder(cells, {})))

\* lambda x: ", ".join(sorted(set(x.dropna())))
AggCountyFull(cells) ==
    Some(StrJoin(LabelSeparator,
                 SortedSet({ Val(c) : c \in { d \in Range(cells) : ~IsNa(d) } })))

GroupedRow(key, group) ==
    [SummitCode |-> Some(key),
     SummitName |-> AggFirst([i \in 1..Len(group) |-> group[i].SummitName]),
     RegionName |-> AggFirst([i \in 1..Len(group) |-> group[i].RegionName]),
     AssociationName |->
         AggFirst([i \in 1..Len(group) |-> group[i].AssociationName]),
     Latitude |-> AggFirst([i \in 1..Len(group) |-> group[i].Latitude]),
     Longitude |-> AggFirst([i \in 1..Len(group) |-> group[i].Longitude]),
     CountyFull |-> AggCountyFull([i \in 1..Len(group) |-> group[i].CountyFull]),
     Points |-> AggFirst([i \in 1..Len(group) |-> group[i].Points])]

GroupedColumns ==
    << "SummitCode", "SummitName", "RegionName", "AssociationName",
       "Latitude", "Longitude", "CountyFull", "Points" >>

\* The DataFrame spatial_join returns.
spatial_join(df, gdf) ==
    LET joined == SJoin(df, gdf)
        keys == GroupKeys(joined)
    IN [columns |-> GroupedColumns,
        rows |-> [k \in 1..Len(keys) |->
                     GroupedRow(keys[k],
                                SelectSeq(joined, LAMBDA r :
                                    r.SummitCode = Some(keys[k])))]]


-----------------------------------------------------------------------------
(* DataFrame objects.  frames holds the objects alive in the run; a name of
   the script is bound to an index of frames, so that two names bound to one
   object see each other's assignments. *)

\* DataFrameCopy without the copy, as filtered = summits would.
DataFrameAlias(heap, ref) ==
    [heap |-> heap, ref |-> ref]

\* DataFrame.copy(): a new object with the same columns and rows.
DataFrameCopy(heap, ref) ==
    [heap |-> Append(heap, heap[ref]), ref |-> Len(heap) + 1]

\* df[mask]: a new object holding the rows whose mask element is True.
BooleanIndex(heap, ref, mask) ==
    LET keep == SelectSeq([i \in 1..Len(mask) |-> i], LAMBDA i : mask[i] = "True")
    IN [heap |-> Append(heap, [heap[ref] EXCEPT
                     !.rows = [k \in 1..Len(keep) |-> heap[ref].rows[keep[k]]]]),
        ref |-> Len(heap) + 1]

-----------------------------------------------------------------------------
(* SIDEBAR FILTERS *)

\* "All"
AllOption == <<65,108,108>>

\* What the user may type in the search box: "", "." and "a1".
SearchTexts == { <<>>, <<46>>, <<97,49>> }

\* sorted({c.strip() for row in summits["CountyFull"].dropna()
\*                   for c in row.split(",")})
AllCounties(frame) ==
    LET labels == { Val(c) : c \in { frame.rows[i].CountyFull :
                                       i \in 1..Len(frame.rows) } \ {NaN} }
    IN SortedSet(UNION { { StrStrip(c) : c \in Range(StrSplit(row, <<44>>)) } :
                           row \in labels })

-----------------------------------------------------------------------------
(* APPLY FILTERS *)

\* filtered["SummitName"].str.contains(search_text, case=False) |
\* filtered["SummitCode"].str.contains(search_text, case=False)
SearchMask(frame, text) ==
    [i \in 1..Len(frame.rows) |->
        MaskOr(StrContains(frame.rows[i].SummitName, text, FALSE),
               StrContains(frame.rows[i].SummitCode, text, FALSE))]

\* filtered["CountyFull"].str.contains(selected_county)
CountyMask(frame, county) ==
    [i \in 1..Len(frame.rows) |-> StrContains(frame.rows[i].CountyFull, county, TRUE)]

\* Lines 115-123: the heap and the binding of filtered after the filters.
ApplyFiltersTo(heap, ref, text, county) ==
    LET copied == DataFrameCopy(heap, ref)
        searched == IF text # <<>>
                    THEN BooleanIndex(copied.heap, copied.ref,
                                      SearchMask(copied.heap[copied.ref], text))
                    ELSE copied
    IN IF county # AllOption
       THEN BooleanIndex(searched.heap, searched.ref,
                         CountyMask(searched.heap[searched.ref], county))
       ELSE searched

-----------------------------------------------------------------------------
(* TABLE *)

\* The order sort_values("Name") puts two names in: NaN last.
NameBefore(a, b) ==
    IF IsNa(a) THEN FALSE
    ELSE IF IsNa(b) THEN TRUE
    ELSE StrLess(Val(a), Val(b))

\* sort_values("Name"): the first row no other row goes before, then the rest.
RECURSIVE SortByName(_)
SortByName(rows) ==
    IF rows = <<>> THEN <<>>
    ELSE LET i == CHOOSE k \in 1..Len(rows) :
                      /\ \A j \in 1..Len(rows) : ~NameBefore(rows[j].Name, rows[k].Name)
                      /\ \A j \in 1..(k - 1) : NameBefore(rows[k].Name, rows[j].Name)
         IN <<rows[i]>> \o
            SortByName(SubSeq(rows, 1, i - 1) \o SubSeq(rows, i + 1, Len(rows)))

\* Lines 135-144
DisplayDf(frame) ==
    SortByName([i \in 1..Len(frame.rows) |->
                   [Summit |-> frame.rows[i].SummitCode,
                    Name |-> frame.rows[i].SummitName,
                    County |-> frame.rows[i].CountyFull]])

-----------------------------------------------------------------------------
(* MAP *)

\* filtered["Color"] = filtered["SummitCode"].apply(...): the object gets the
\* column Color.
WithColor(frame, code) ==
    [columns |-> IF "Color" \in Range(frame.columns) THEN frame.columns
                 ELSE Append(frame.columns, "Color"),
     rows |-> [i \in 1..Len(frame.rows) |->
                  [SummitCode |-> frame.rows[i].SummitCode,
                   SummitName |-> frame.rows[i].SummitName,
                   RegionName |-> frame.rows[i].RegionName,
                   AssociationName |-> frame.rows[i].AssociationName,
                   Latitude |-> frame.rows[i].Latitude,
                   Longitude |-> frame.rows[i].Longitude,
                   CountyFull |-> frame.rows[i].CountyFull,
                   Points |-> frame.rows[i].Points,
                   Color |-> IF frame.rows[i].SummitCode = code
                             THEN <<0, 150, 255, 255>>
                             ELSE <<200, 30, 0, 180>>]]]

RECURSIVE Sum(_)
Sum(xs) == IF xs = <<>> THEN 0 ELSE Head(xs) + Sum(Tail(xs))

\* Lines 194-206; a coordinate of the view is the pair <<sum, count>> of the
\* mean it is.
ViewState(frame, code) ==
    IF ~IsNa(code)
    THEN LET summit == SelectSeq(frame.rows, LAMBDA r : r.SummitCode = code)[1]
         IN [kind |-> "map", zoom |-> 10,
             latitude |-> <<Val(summit.Latitude), 1>>,
             longitude |-> <<Val(summit.Longitude), 1>>]
    ELSE [kind |-> "map", zoom |-> 6,
          latitude |-> <<Sum([i \in 1..Len(frame.rows) |->
                                 Val(frame.rows[i].Latitude)]), Len(frame.rows)>>,
          longitude |-> <<Sum([i \in 1..Len(frame.rows) |->
                                  Val(frame.rows[i].Longitude)]), Len(frame.rows)>>]

NoView == [kind |-> "none", zoom |-> 0, latitude |-> <<0, 0>>, longitude |-> <<0, 0>>]
InfoView == [kind |-> "info", zoom |-> 0, latitude |-> <<0, 0>>, longitude |-> <<0, 0>>]

-----------------------------------------------------------------------------
(* The script *)

Init ==
    /\ csv \in CsvFiles(MaxRows)
    /\ geojson \in FeatureCollections(MaxFeatures)
    /\ pc = "load"
    /\ summits_df = NaN
    /\ counties_gdf = NaN
    /\ join_cache = NaN
    /\ cache_hit = FALSE
    /\ frames = <<>>
    /\ summits = 0
    /\ filtered = 0
    /\ search_text = <<>>
    /\ all_counties = <<>>
    /\ selected_county = AllOption
    /\ display_df = <<>>
    /\ selected_code = NaN
    /\ view = NoView

\* Lines 95-97 on the first run: the three cached functions are computed.
LoadDataFirst ==
    /\ pc = "load"
    /\ IsNa(join_cache)
    /\ summits_df' = Some(load_summits(csv))
    /\ counties_gdf' = Some(load_counties(geojson))
    /\ frames' = << spatial_join(Val(summits_df'), Val(counties_gdf')) >>
    /\ join_cache' = Some(1)
    /\ cache_hit' = FALSE
    /\ summits' = 1
    /\ pc' = "sidebar"
    /\ UNCHANGED <<csv, geojson, filtered, search_text, all_counties,
                   selected_county, display_df, selected_code, view>>

\* Lines 95-97 on a rerun: st.cache_resource hands out the object it holds.
LoadDataCached ==
    /\ pc = "load"
    /\ ~IsNa(join_cache)
    /\ cache_hit' = TRUE
    /\ summits' = Val(join_cache)
    /\ pc' = "sidebar"
    /\ UNCHANGED <<csv, geojson, summits_df, counties_gdf, join_cache, frames,
                   filtered, search_text, all_counties, selected_county,
                   display_df, selected_code, view>>

\* Lines 102-110: the widgets return what the user set.
Sidebar ==
    /\ pc = "sidebar"
    /\ all_counties' = AllCounties(frames[summits])
    /\ \E text \in SearchTexts : search_text' = text
    /\ \E county \in {AllOption} \cup Range(all_counties') : selected_county' = county
    /\ pc' = "filter"
    /\ UNCHANGED <<csv, geojson, summits_df, counties_gdf, join_cache, cache_hit,
                   frames, summits, filtered, display_df, selected_code, view>>

\* Lines 115-125
ApplyFilters ==
    /\ pc = "filter"
    /\ LET done == ApplyFiltersTo(frames, summits, search_text, selected_county)
       IN /\ frames' = done.heap
          /\ filtered' = done.ref
    /\ pc' = "table"
    /\ UNCHANGED <<csv, geojson, summits_df, counties_gdf, join_cache, cache_hit,
                   summits, search_text, all_counties, selected_county,
                   display_df, selected_code, view>>

\* Lines 133-150: the editor returns the whole table, so a summit is selected
\* exactly when the table has one row.
Table ==
    /\ pc = "table"
    /\ display_df' = DisplayDf(frames[filtered])
    /\ selected_code' = IF Len(display_df') = 1 THEN display_df'[1].Summit ELSE NaN
    /\ pc' = "map"
    /\ UNCHANGED <<csv, geojson, summits_df, counties_gdf, join_cache, cache_hit,
                   frames, summits, filtered, search_text, all_counties,
                   selected_county, view>>

\* Lines 155-223: some summit is visible.
MapRender ==
    /\ pc = "map"
    /\ frames[filtered].rows # <<>>
    /\ frames' = [frames EXCEPT ![filtered] = WithColor(@, selected_code)]
    /\ view' = ViewState(frames'[filtered], selected_code)
    /\ pc' = "done"
    /\ UNCHANGED <<csv, geojson, summits_df, counties_gdf, join_cache, cache_hit,
                   summits, filtered, search_text, all_counties, selected_county,
                   display_df, selected_code>>

\* Lines 224-225: no summit is visible.
MapInfo ==
    /\ pc = "map"
    /\ frames[filtered].rows = <<>>
    /\ view' = InfoView
    /\ pc' = "done"
    /\ UNCHANGED <<csv, geojson, summits_df, counties_gdf, join_cache, cache_hit,
                   frames, summits, filtered, search_text, all_counties,
                   selected_county, display_df, selected_code>>

\* The user touches a widget: the script runs again from the top.  The
\* objects of the finished run are gone, but for the one the cache holds.
Rerun ==
    /\ pc = "done"
    /\ pc' = "load"
    /\ frames' = << frames[Val(join_cache)] >>
    /\ summits' = 0
    /\ filtered' = 0
    /\ search_text' = <<>>
    /\ all_counties' = <<>>
    /\ selected_county' = AllOption
    /\ display_df' = <<>>
    /\ selected_code' = NaN
    /\ view' = NoView
    /\ cache_hit' = FALSE
    /\ UNCHANGED <<csv, geojson, summits_df, counties_gdf, join_cache>>

Next ==
    \/ LoadDataFirst
    \/ LoadDataCached
    \/ Sidebar
    \/ ApplyFilters
    \/ Table
    \/ MapRender
    \/ MapInfo
    \/ Rerun

Spec == Init /\ [][Next]_vars


-----------------------------------------------------------------------------
(* Vocabulary of the properties *)

\* spatial_join has been computed.
JoinDone == ~IsNa(join_cache)

\* Lines 95-97 have just run: summits is what spatial_join returned.
JoinReturned == pc = "sidebar"

\* The loaded point records and the rows of the frame summits is bound to.
Loaded == IF IsNa(summits_df) THEN <<>> ELSE Val(summits_df)
Out == IF JoinDone THEN frames[Val(join_cache)].rows ELSE <<>>

Filtered == pc \in {"table", "map", "done"}

\* The point of record r lies in the closed region of rectangle g.
InClosedRegion(r, g) ==
    /\ g.xmin <= Val(r.Longitude) /\ Val(r.Longitude) <= g.xmax
    /\ g.ymin <= Val(r.Latitude) /\ Val(r.Latitude) <= g.ymax

\* The features record r has a Joined Match with.
MatchesOf(r) == { k \in 1..Len(geojson) : InClosedRegion(r, geojson[k].geometry) }

\* "{polygon name} County, {abbreviation}" of feature f: no label when the
\* name is missing or the region code is not a key of STATE_FIPS.
CountyLabels(f) ==
    IF IsNa(f.NAME) \/ IsNa(f.State) THEN {}
    ELSE { Val(f.NAME) \o <<32,67,111,117,110,116,121,44,32>> \o e[2] :
             e \in { x \in STATE_FIPS : x[1] = Val(f.State) } }

\* The county labels of all Joined Matches of the records with identifier code.
ExpectedLabels(code) ==
    UNION { CountyLabels(geojson[k]) :
              k \in UNION { MatchesOf(Loaded[i]) :
                              i \in { j \in 1..Len(Loaded) :
                                        Loaded[j].SummitCode = code } } }

OutRowsFor(code) == { j \in 1..Len(Out) : Out[j].SummitCode = code }

\* l occurs in s.
IsSubstring(l, s) ==
    \E i \in 1..(Len(s) - Len(l) + 1) : SubSeq(s, i, i + Len(l) - 1) = l

-----------------------------------------------------------------------------
(* C1 *)

\* C1 as stated: every loaded point record (that has an identifier) has
\* exactly one output row for its identifier, and a record matching no polygon
\* has the label "" there.
C1_EveryPointOneRowEmptyIfUnmatched ==
    JoinReturned =>
        \A i \in 1..Len(Loaded) :
            ~IsNa(Loaded[i].SummitCode) =>
                /\ Cardinality(OutRowsFor(Loaded[i].SummitCode)) = 1
                /\ MatchesOf(Loaded[i]) = {} =>
                       \A j \in OutRowsFor(Loaded[i].SummitCode) :
                           Out[j].CountyFull = Some(<<>>)

\* C1 amended: every loaded point record whose identifier is present has
\* exactly one output row for that identifier, matched or not; the label of
\* an output row is "" exactly when no record with its identifier has a match
\* with a polygon that has a county label.
C1_LeftJoinPerIdentifier ==
    JoinReturned =>
        /\ \A i \in 1..Len(Loaded) :
               ~IsNa(Loaded[i].SummitCode) =>
                   Cardinality(OutRowsFor(Loaded[i].SummitCode)) = 1
        /\ \A j \in 1..Len(Out) :
               (Out[j].CountyFull = Some(<<>>)) <=>
                   (ExpectedLabels(Out[j].SummitCode) = {})

\* A point with an identifier and no match has its row, with the label "",
\* next to a row of a matched point.
C1_Witness ==
    /\ JoinReturned
    /\ \E i \in 1..Len(Loaded) :
           /\ ~IsNa(Loaded[i].SummitCode)
           /\ MatchesOf(Loaded[i]) = {}
           /\ \E j \in OutRowsFor(Loaded[i].SummitCode) :
                  Out[j].CountyFull = Some(<<>>)
    /\ \E j \in 1..Len(Out) : Out[j].CountyFull # Some(<<>>)

-----------------------------------------------------------------------------
(* C2 *)

\* The first loaded record with identifier code.
FirstRecord(code) ==
    Loaded[CHOOSE i \in 1..Len(Loaded) :
               /\ Loaded[i].SummitCode = code
               /\ \A j \in 1..(i - 1) : Loaded[j].SummitCode # code]

\* C2: there is one output row per identifier, and its name, parent region,
\* parent association, latitude, longitude and score are those of the first
\* loaded record with that identifier.
C2_FieldsOfFirstRecord ==
    JoinReturned =>
        \A j \in 1..Len(Out) :
            /\ Cardinality(OutRowsFor(Out[j].SummitCode)) = 1
            /\ LET first == FirstRecord(Out[j].SummitCode)
               IN /\ Out[j].SummitName = first.SummitName
                  /\ Out[j].RegionName = first.RegionName
                  /\ Out[j].AssociationName = first.AssociationName
                  /\ Out[j].Latitude = first.Latitude
                  /\ Out[j].Longitude = first.Longitude
                  /\ Out[j].Points = first.Points

-----------------------------------------------------------------------------
(* C3 *)

\* C3: the label of every output row is the ", "-join of the ascending,
\* duplicate-free list of the county labels of the identifier's matches; a
\* match without name or with a region code outside STATE_FIPS adds nothing.
C3_LabelIsSortedUniqueJoin ==
    JoinReturned =>
        \A j \in 1..Len(Out) :
            Out[j].CountyFull =
                Some(StrJoin(<<44,32>>, SortedSet(ExpectedLabels(Out[j].SummitCode))))

\* A point matched by two features with one county label and by a feature
\* without county label has that label once, and nothing else, as its label.
C3_Witness ==
    /\ JoinReturned
    /\ \E i \in 1..Len(Loaded) : \E k1, k2, k3 \in MatchesOf(Loaded[i]) :
           /\ k1 # k2
           /\ CountyLabels(geojson[k1]) # {}
           /\ CountyLabels(geojson[k1]) = CountyLabels(geojson[k2])
           /\ CountyLabels(geojson[k3]) = {}
           /\ \E j \in OutRowsFor(Loaded[i].SummitCode) :
                  CountyLabels(geojson[k1]) = {Val(Out[j].CountyFull)}

\* A point whose only match has the region code "99", with the label "".
C3_WitnessUnknownCode ==
    /\ JoinReturned
    /\ \E i \in 1..Len(Loaded) : \E k \in MatchesOf(Loaded[i]) :
           /\ MatchesOf(Loaded[i]) = {k}
           /\ geojson[k].State = Some(<<57,57>>)
           /\ ~IsNa(geojson[k].NAME)
           /\ \E j \in OutRowsFor(Loaded[i].SummitCode) :
                  Out[j].CountyFull = Some(<<>>)

-----------------------------------------------------------------------------
(* C4 *)

\* C4 as stated: the label split on ", " is its own sorted, duplicate-free
\* form.
C4_SplitIsSortedUnique ==
    JoinReturned =>
        \A j \in 1..Len(Out) :
            LET parts == StrSplit(Val(Out[j].CountyFull), <<44,32>>)
            IN parts = SortedSet(Range(parts))

\* The county labels a label is made of: a county label holds one ", ", so
\* they are the pairs of neighbouring pieces of the split on ", ".
LabelItems(label) ==
    LET parts == StrSplit(label, <<44,32>>)
    IN [n \in 1..(Len(parts) \div 2) |->
           parts[2 * n - 1] \o <<44,32>> \o parts[2 * n]]

\* C4 amended: the label of an output row is "" or the ", "-join of county
\* labels in strictly ascending order (sorted, no duplicate); the split on
\* ", " gives the halves of these labels, two per county label.
C4_ItemsStrictlyAscending ==
    JoinReturned =>
        \A j \in 1..Len(Out) :
            LET label == Val(Out[j].CountyFull)
                items == LabelItems(label)
            IN \/ label = <<>>
               \/ /\ Len(StrSplit(label, <<44,32>>)) = 2 * Len(items)
                  /\ \A n \in 1..Len(items) :
                         \E k \in 1..Len(geojson) : items[n] \in CountyLabels(geojson[k])
                  /\ \A n \in 1..(Len(items) - 1) : StrLess(items[n], items[n + 1])

\* A label of two county labels, met in the file in descending order.
C4_Witness ==
    /\ JoinReturned
    /\ \E j \in 1..Len(Out) : Len(LabelItems(Val(Out[j].CountyFull))) = 2
    /\ Len(geojson) = 2
    /\ \E a \in CountyLabels(geojson[1]) : \E b \in CountyLabels(geojson[2]) :
           StrLess(b, a)

-----------------------------------------------------------------------------
(* C5 *)

\* The point of record r lies on the boundary of rectangle g.
OnBoundary(r, g) ==
    /\ InClosedRegion(r, g)
    /\ \/ Val(r.Longitude) \in {g.xmin, g.xmax}
       \/ Val(r.Latitude) \in {g.ymin, g.ymax}

\* C5: a point has a Joined Match with every polygon whose closed region
\* holds it, boundary included, and the label of its row contains the county
\* label of each of them.
C5_BoundaryInclusive ==
    JoinReturned =>
        \A i \in 1..Len(Loaded) : \A k \in MatchesOf(Loaded[i]) :
            /\ \E m \in 1..Len(LeftJoinRows(Loaded[i], Val(counties_gdf))) :
                   LET row == LeftJoinRows(Loaded[i], Val(counties_gdf))[m]
                   IN /\ row.NAME = geojson[k].NAME
                      /\ row.State = geojson[k].State
            /\ ~IsNa(Loaded[i].SummitCode) =>
                   \A l \in CountyLabels(geojson[k]) :
                       \E j \in OutRowsFor(Loaded[i].SummitCode) :
                           IsSubstring(l, Val(Out[j].CountyFull))

\* A point on the edge two neighbouring polygons share, with both county
\* labels in its label.
C5_Witness ==
    /\ JoinReturned
    /\ \E i \in 1..Len(Loaded) : \E k1, k2 \in MatchesOf(Loaded[i]) :
           /\ geojson[k1].geometry.xmax = geojson[k2].geometry.xmin
           /\ Val(Loaded[i].Longitude) = geojson[k1].geometry.xmax
           /\ OnBoundary(Loaded[i], geojson[k1].geometry)
           /\ OnBoundary(Loaded[i], geojson[k2].geometry)
           /\ \E a \in CountyLabels(geojson[k1]) : \E b \in CountyLabels(geojson[k2]) :
                  /\ a # b
                  /\ \E j \in OutRowsFor(Loaded[i].SummitCode) :
                         /\ IsSubstring(a, Val(Out[j].CountyFull))
                         /\ IsSubstring(b, Val(Out[j].CountyFull))


-----------------------------------------------------------------------------
(* C6 *)

\* The decimal text of a natural number, and of an integer.
RECURSIVE NatText(_)
NatText(n) == IF n < 10 THEN <<48 + n>> ELSE NatText(n \div 10) \o <<48 + (n % 10)>>
DecimalText(n) == IF n < 0 THEN <<45>> \o NatText(0 - n) ELSE NatText(n)

\* The texts of the numbers of the grid.
NumberTexts == { DecimalText(n) : n \in -99..99 }

\* The cell holds the text of a number.
NumericCell(cell) ==
    /\ ~IsNa(cell)
    /\ Val(cell) \in NumberTexts

\* The rows of the file whose two coordinate cells are numbers.
GoodRows ==
    SelectSeq([i \in 1..Len(csv) |-> i],
              LAMBDA i : NumericCell(csv[i].Latitude) /\ NumericCell(csv[i].Longitude))

\* C6: load_summits keeps exactly the rows whose Latitude and Longitude are
\* numbers, in the order of the file, with the coordinates as numbers; so no
\* frame and no table ever holds an identifier that occurs only on other rows.
C6_BadCoordinatesDropped ==
    ~IsNa(summits_df) =>
        /\ Len(Loaded) = Len(GoodRows)
        /\ \A k \in 1..Len(GoodRows) :
               k <= Len(Loaded) =>
                   LET a == Loaded[k]
                       b == csv[GoodRows[k]]
                   IN /\ a.SummitCode = b.SummitCode
                      /\ a.SummitName = b.SummitName
                      /\ a.RegionName = b.RegionName
                      /\ a.AssociationName = b.AssociationName
                      /\ a.Points = b.Points
                      /\ ~IsNa(a.Latitude) /\ ~IsNa(a.Longitude)
                      /\ DecimalText(Val(a.Latitude)) = Val(b.Latitude)
                      /\ DecimalText(Val(a.Longitude)) = Val(b.Longitude)
        /\ LET good == { csv[i].SummitCode : i \in Range(GoodRows) }
           IN /\ \A f \in 1..Len(frames) : \A j \in 1..Len(frames[f].rows) :
                     frames[f].rows[j].SummitCode \in good
              /\ \A j \in 1..Len(display_df) : display_df[j].Summit \in good

\* A file with a row of empty or non-numeric coordinates before a good row
\* of another identifier, the good row on the map.
C6_Witness ==
    /\ pc = "done"
    /\ view.kind = "map"
    /\ Len(csv) = 2
    /\ ~NumericCell(csv[1].Latitude) \/ ~NumericCell(csv[1].Longitude)
    /\ csv[1].SummitCode # csv[2].SummitCode
    /\ Len(Loaded) = 1
    /\ Len(display_df) = 1
    /\ display_df[1].Summit = csv[2].SummitCode

-----------------------------------------------------------------------------
(* C7 *)

\* C7 for the minimum score 10: when every score is at most 8 the filtered
\* result is empty.
C7_MinimumScoreTenGivesEmpty ==
    (Filtered /\ \A j \in 1..Len(Out) :
                     ~IsNa(Out[j].Points) /\ Val(Out[j].Points) <= 8)
        => frames[filtered].rows = <<>>

-----------------------------------------------------------------------------
(* C8 *)

\* l occurs in s, letter case ignored.
IsSubstringNoCase(l, s) ==
    IsSubstring([i \in 1..Len(l) |-> Lower(l[i])], [i \in 1..Len(s) |-> Lower(s[i])])

\* Row r passes the filters as C8 reads them.
PassesFilters(r, text, county) ==
    /\ \/ text = <<>>
       \/ ~IsNa(r.SummitName) /\ IsSubstringNoCase(text, Val(r.SummitName))
       \/ ~IsNa(r.SummitCode) /\ IsSubstringNoCase(text, Val(r.SummitCode))
    /\ \/ county = AllOption
       \/ IsSubstring(county, Val(r.CountyFull))

\* C8: the filtered rows are the rows of the join result of which the search
\* text is a substring, case ignored, of the name or of the identifier, and
\* of whose label the selected county is a substring.
C8_FilteredIsSubstringSubset ==
    Filtered =>
        LET want == SelectSeq(Out, LAMBDA r :
                        PassesFilters(r, search_text, selected_county))
            got == frames[filtered].rows
        IN /\ Len(got) = Len(want)
           /\ \A j \in 1..Len(want) :
                  j <= Len(got) => got[j].SummitCode = want[j].SummitCode

-----------------------------------------------------------------------------
(* C9 *)

\* C9: the vocabulary is the set of the county labels of all matches of all
\* rows: whole labels, never "", none left out.
C9_VocabularyIsCountyLabels ==
    pc \in {"filter", "table", "map", "done"} =>
        Range(all_counties) = UNION { ExpectedLabels(Out[j].SummitCode) :
                                        j \in 1..Len(Out) }

-----------------------------------------------------------------------------
(* C10 *)

\* C10: once spatial_join has been computed, no step of any run or rerun
\* changes the object the cache holds (its columns and its rows stay those
\* spatial_join returned) or the cache entry, and summits is bound to that
\* object in every run.
C10_CachedJoinUnchanged ==
    [][JoinDone =>
           /\ join_cache' = join_cache
           /\ frames'[Val(join_cache)] = frames[Val(join_cache)]
           /\ frames'[Val(join_cache)].columns = GroupedColumns
           /\ summits' \in {0, Val(join_cache)}]_vars

\* A rerun that got the join result from the cache has drawn the map of all
\* rows: the Color column is on the frame filtered is bound to.
C10_Witness ==
    /\ pc = "done"
    /\ cache_hit
    /\ view.kind = "map"
    /\ search_text = <<>>
    /\ selected_county = AllOption
    /\ "Color" \in Range(frames[filtered].columns)
    /\ Len(frames[filtered].rows) = Len(Out)

====
